---- MODULE Spec2Model ----
(***************************************************************************)
(* Model of the Galactic-Rotation preprocessing pipeline:                  *)
(*   data_functions.py : load_pickle, create_dataframe, get_all_datasets   *)
(*   plot_functions.py : detrend, plot_baseline_fit, freq_to_rv            *)
(*                                                                         *)
(* Units and representations                                               *)
(*  - A frequency is an integer number of kHz (1420.405 MHz = 1420405).    *)
(*  - A power reading is a positive integer; a mean over scans and a       *)
(*    ratio of two means are exact rationals [num, den] in lowest terms.   *)
(*  - A pandas DataFrame is a sequence of rows [idx, freq, data, baseline] *)
(*    where idx is the row's index label (its position at construction).   *)
(*  - A call either returns or raises: [ok |-> TRUE, value |-> v] or       *)
(*    [ok |-> FALSE, error |-> name of the Python exception].              *)
(*  - numpy.polyfit / numpy.polyval are library code; the fitted           *)
(*    polynomial is kept as a term naming the points it was fitted on, its *)
(*    degree and the abscissa it is evaluated at.                          *)
(***************************************************************************)
EXTENDS Integers, Sequences, FiniteSets, TLC

VARIABLES
    pc,        \* position of the driver script
    cur,       \* the longitude the driver works on: an index into `longitudes`
    listing,   \* os.listdir('Data'): the entry names, in the order the OS returns them
    contents,  \* the Data directory: entry name -> what the entry holds
    data,      \* result of get_all_datasets()
    on,        \* argument set_on of a direct create_dataframe call
    off,       \* argument set_off of a direct create_dataframe call
    rec,       \* create_dataframe(on, off)
    recSwap,   \* create_dataframe(off, on)
    det,       \* result of the last detrend call
    fig,       \* what the last plot_baseline_fit call drew
    freqsIn,   \* argument of a direct freq_to_rv call
    rv         \* freq_to_rv(freqsIn)

vars == <<pc, cur, listing, contents, data, on, off, rec, recSwap, det, fig, freqsIn, rv>>

(***************************************************************************)
(* Bounds of the enumerated inputs                                         *)
(***************************************************************************)
MaxLen == 2      \* frequency bins of an enumerated measurement
MaxScans == 2    \* scans (rows of `data`) of an enumerated measurement
MaxPower == 2    \* largest base power reading of an enumerated measurement
MaxFiles == 60   \* entries of the Data directory

None == [ok |-> FALSE, error |-> "NotCalled"]
Ok(v) == [ok |-> TRUE, value |-> v]
Err(e) == [ok |-> FALSE, error |-> e]

Abs(x) == IF x < 0 THEN -x ELSE x

RECURSIVE GCD(_, _)
GCD(a, b) == IF b = 0 THEN a ELSE GCD(b, a % b)

\* the rational n/d (d > 0) in lowest terms
Rat(n, d) == LET g == GCD(Abs(n), d) IN [num |-> n \div g, den |-> d \div g]

RECURSIVE SumSeq(_)
SumSeq(s) == IF s = <<>> THEN 0 ELSE Head(s) + SumSeq(Tail(s))

Reverse(s) == [i \in 1..Len(s) |-> s[Len(s) + 1 - i]]

(***************************************************************************)
(* Raw measurements: the dict a pickle file holds.  `time` is never read   *)
(* by the code and is left out.  data[s][j] is the reading of scan s in    *)
(* frequency bin j.                                                        *)
(***************************************************************************)

\* Spectrometer frequencies (kHz) next to the thresholds the code uses:
\* plain rows, the edges and centres of the artifact bands, the 21-cm line
\* and the edge of the +/- 0.5 MHz fit window.
Grid == <<1419000, 1419250, 1419905, 1419990, 1420000, 1420405, 1421000, 1423500>>

\* the frequency axis of the end-to-end scenario of the documentation
ExampleFreqs == <<1419000, 1420000, 1420405, 1421000, 1423500>>

Window(start, len) == [i \in 1..len |-> Grid[start + i - 1]]

\* ascending and descending runs of the grid, of 1 to MaxLen bins
Axes ==
    LET asc == UNION {{Window(st, n) : st \in 1..(Len(Grid) - n + 1)} : n \in 1..MaxLen}
    IN asc \cup {Reverse(a) : a \in asc}

\* readings that rise by one per bin, and by `step` per scan
MkData(len, nscans, base, step) ==
    [s \in 1..nscans |-> [j \in 1..len |-> base + (j - 1) + step * (s - 1)]]

MkMeas(freqs, nscans, base, step) ==
    [freqs |-> freqs, data |-> MkData(Len(freqs), nscans, base, step)]

MeasOn(freqs) ==
    {MkMeas(freqs, n, b, st) : n \in 1..MaxScans, b \in 1..MaxPower, st \in {0, 1}}

ExampleMeas == [freqs |-> ExampleFreqs, data |-> <<<<1, 1, 1, 1, 1>>>>]

Measurements == UNION {MeasOn(a) : a \in Axes} \cup {ExampleMeas}

\* the frequency axes an off measurement is paired with: the on axis itself,
\* the same bins in the opposite order, and an axis one bin shorter
OffAxes(freqs) ==
    {freqs, Reverse(freqs)} \cup (IF Len(freqs) <= 1 THEN {} ELSE {Tail(freqs)})

(***************************************************************************)
(* pandas / numpy primitives used by the code                              *)
(***************************************************************************)

\* mean over the wrong axis: ndarray.mean(axis=1), one value per scan
mean_axis1(d) ==
    [s \in 1..Len(d) |-> Rat(SumSeq(d[s]), IF Len(d[s]) = 0 THEN 1 ELSE Len(d[s]))]

\* ndarray.mean(axis=0).flatten() of a scans x bins array
mean_axis0(d) ==
    [j \in 1..Len(d[1]) |-> Rat(SumSeq([s \in 1..Len(d) |-> d[s][j]]), Len(d))]

\* a frame built like zip(): cut to the shortest column, no length check
DataFrame_zip(freq, dat, baseline) ==
    LET n == IF Len(freq) <= Len(dat)
             THEN (IF Len(freq) <= Len(baseline) THEN Len(freq) ELSE Len(baseline))
             ELSE (IF Len(dat) <= Len(baseline) THEN Len(dat) ELSE Len(baseline))
    IN Ok([i \in 1..n |->
             [idx |-> i - 1, freq |-> freq[i], data |-> dat[i], baseline |-> baseline[i]]])

\* a frame whose baseline column is attached in the opposite bin order
DataFrame_misaligned(freq, dat, baseline) ==
    IF Len(freq) = Len(dat) /\ Len(dat) = Len(baseline)
    THEN Ok([i \in 1..Len(freq) |->
               [idx |-> i - 1, freq |-> freq[i], data |-> dat[i],
                baseline |-> baseline[Len(baseline) + 1 - i]]])
    ELSE Err("ValueError")

\* pd.DataFrame(data={'freq':..., 'data':..., 'baseline':...}): the columns
\* must have one length; the index is 0..n-1
DataFrame(freq, dat, baseline) ==
    IF Len(freq) = Len(dat) /\ Len(dat) = Len(baseline)
    THEN Ok([i \in 1..Len(freq) |->
               [idx |-> i - 1, freq |-> freq[i], data |-> dat[i], baseline |-> baseline[i]]])
    ELSE Err("ValueError")

\* Band edges at which the binary64 difference falls below the threshold:
\* 0.01 and 0.05 are not binary fractions, and for the kHz-grid neighbours of
\* these centres the stored doubles give 1420.01 - 1420 = 0.009999999999990905,
\* 1420 - 1419.99 = 0.009999999999990905, 1419.25 - 1419.2 = 1419.2 - 1419.15 =
\* 1423.55 - 1423.5 = 1423.5 - 1423.45 = 0.049999999999954525.
RoundsBelow == {<<1420000, 10>>, <<1419200, 50>>, <<1423500, 50>>}

\* np.abs(f - c) < hw, evaluated in binary64 on a frequency of the kHz grid.
\* Off an edge the decimal comparison decides (the rounding error is below
\* 1e-12 MHz); at decimal distance exactly hw the rounding decides: the
\* difference stays 0.5 exactly for the 21-cm window (1420.905 - 1420.405 =
\* 1420.405 - 1419.905 = 0.5), and falls below hw for the artifact bands.
abs_lt(f, c, hw) ==
    \/ Abs(f - c) < hw
    \/ Abs(f - c) = hw /\ <<c, hw>> \in RoundsBelow

\* df.drop(labels, inplace=True): the frame itself loses the rows
drop_inplace(df, labels) ==
    LET kept == SelectSeq(df, LAMBDA r : r.idx \notin labels)
    IN [self |-> kept, ret |-> kept]

\* df.drop(labels): returns a new frame without the rows labelled `labels`;
\* the frame it is called on (self) is left as it was
drop(df, labels) ==
    [self |-> df, ret |-> SelectSeq(df, LAMBDA r : r.idx \notin labels)]

\* df[np.abs(df.freq - c) < hw].index
near(df, c, hw) == {df[i].idx : i \in {k \in 1..Len(df) : abs_lt(df[k].freq, c, hw)}}

(***************************************************************************)
(* data_functions.py                                                       *)
(***************************************************************************)

\* the Python value None, and the test that a value is a measurement dict
PyNone == [none |-> TRUE]
IsDict(v) == "freqs" \in DOMAIN v

\* create_dataframe without its last drop: the 1423.5 MHz band stays
create_dataframe_two_bands(set_on, set_off) ==
    IF ~IsDict(set_on) \/ ~IsDict(set_off) THEN Err("TypeError")
    ELSE
    LET df0 == DataFrame(set_on.freqs, mean_axis0(set_on.data), mean_axis0(set_off.data))
    IN IF ~df0.ok THEN df0
       ELSE LET df1 == drop(df0.value, near(df0.value, 1420000, 10)).ret
                df2 == drop(df1, near(df1, 1419200, 50)).ret
            IN Ok(df2)

\* The dict literal subscripts set_on['freqs'], set_on['data'] and
\* set_off['data'] before pd.DataFrame is called: an argument that is None
\* raises TypeError there.
create_dataframe(set_on, set_off) ==
    IF ~IsDict(set_on) \/ ~IsDict(set_off) THEN Err("TypeError")
    ELSE
    LET df0 == DataFrame(set_on.freqs, mean_axis0(set_on.data), mean_axis0(set_off.data))
    IN IF ~df0.ok THEN df0
       ELSE LET df1 == drop(df0.value, near(df0.value, 1420000, 10)).ret
                df2 == drop(df1, near(df1, 1419200, 50)).ret
                df3 == drop(df2, near(df2, 1423500, 50)).ret
            IN Ok(df3)

\* The texts a file of Data/ that is not a capture may hold.
HeaderText == "Longitude  Latitude  File\n" \* a whole line after the LONG opcode 'L'
NotesText == "Notes on the data"            \* 'N' (None), then 'o': no MARK
NoneText == "N."                            \* the pickle stream of None
EmptyText == ""
Texts == {HeaderText, NotesText, NoneText, EmptyText}

\* pickle.load(file, encoding="latin1") on the bytes of an open file
pickle_load(entry) ==
    IF entry.kind = "pkl" THEN Ok(entry.meas)
    ELSE IF entry.text = EmptyText THEN Err("EOFError")
    ELSE IF entry.text = HeaderText THEN Err("ValueError")
    ELSE IF entry.text = NoneText THEN Ok(PyNone)
    ELSE Err("UnpicklingError")

\* open('Data/' + filename, 'rb') raises on a folder, before pickle.load runs;
\* an exception of pickle.load leaves load_pickle at once
load_pickle(dir, filename) ==
    IF dir[filename].kind = "dir" THEN Err("IsADirectoryError")
    ELSE pickle_load(dir[filename])

longitudes == <<10, 15, 20, 25, 30, 35, 40, 45, 50, 55, 60,
                65, 70, 75, 80, 85, 90, 95, 100, 110, 130,
                140, 150, 160, 170, 180, 190, 120>>

RECURSIVE Minimum(_)
Minimum(S) == LET x == CHOOSE y \in S : TRUE
              IN IF S = {x} THEN x
                 ELSE LET m == Minimum(S \ {x}) IN IF x < m THEN x ELSE m

\* list.sort(): the names in ascending order (names are distinct)
RECURSIVE sort(_)
sort(l) ==
    IF l = <<>> THEN <<>>
    ELSE LET m == Minimum({l[i] : i \in 1..Len(l)})
         IN <<m>> \o sort(SelectSeq(l, LAMBDA x : x # m))

\* file_list[:-2]
drop_last_two(l) == IF Len(l) <= 2 THEN <<>> ELSE SubSeq(l, 1, Len(l) - 2)

\* The body of the loop of get_all_datasets, from pair i (0-based) on, with
\* `acc` the dict built so far.  file_list[2*i] is element 2*i+1 of the
\* 1-based sequence.  Python evaluates the right-hand side of
\* data[longitudes[i]] = create_dataframe(...) before longitudes[i].
RECURSIVE load_pairs(_, _, _, _)
load_pairs(dir, file_list, i, acc) ==
    IF i >= Len(file_list) \div 2 THEN Ok(acc)
    ELSE LET filename_norm == file_list[2 * i + 1]
             filename_data == file_list[2 * i + 2]
             set_on  == load_pickle(dir, filename_data)
             set_off == load_pickle(dir, filename_norm)
         IN IF ~set_on.ok THEN set_on
            ELSE IF ~set_off.ok THEN set_off
            ELSE LET df == create_dataframe(set_on.value, set_off.value)
                 IN IF ~df.ok THEN df
                    ELSE IF i + 1 > Len(longitudes) THEN Err("IndexError")
                    ELSE load_pairs(dir, file_list, i + 1,
                                    (longitudes[i + 1] :> df.value) @@ acc)

\* get_all_datasets without file_list.sort()
get_all_datasets_unsorted(dir, listdir) ==
    load_pairs(dir, drop_last_two(listdir), 0, <<>>)

\* get_all_datasets that stops after the last known longitude
get_all_datasets_truncating(dir, listdir) ==
    LET file_list == drop_last_two(sort(listdir))
        known == 2 * Len(longitudes)
    IN load_pairs(dir, IF Len(file_list) > known THEN SubSeq(file_list, 1, known)
                       ELSE file_list, 0, <<>>)

get_all_datasets(dir, listdir) ==
    load_pairs(dir, drop_last_two(sort(listdir)), 0, <<>>)

(***************************************************************************)
(* plot_functions.py                                                       *)
(***************************************************************************)
f21cm == 1420405

\* Series / Series, elementwise, on means that are positive rationals
ratio(r) == Rat(r.data.num * r.baseline.den, r.data.den * r.baseline.num)

col_freq(df) == [i \in 1..Len(df) |-> df[i].freq]
col_ratio(df) == [i \in 1..Len(df) |-> ratio(df[i])]

\* np.polyfit(x, y, deg): raises TypeError on an empty x; otherwise the
\* least-squares polynomial, kept as the term that names its inputs
polyfit(x, y, deg) ==
    IF Len(x) = 0 THEN Err("TypeError")
    ELSE Ok([x |-> x, y |-> y, deg |-> deg])

\* np.polyval(p, xs): one value per element of xs, in the order of xs
polyval(p, xs) == [i \in 1..Len(xs) |-> [p |-> p, at |-> xs[i]]]

\* the fit computed on every row, the rows near the 21-cm line included
baseline_fit_untrimmed(df, deg) ==
    LET norm == col_ratio(df)
        fit_coeff == polyfit(col_freq(df), norm, deg)
    IN [df |-> df, trimmed |-> df, norm |-> norm,
        coeff |-> fit_coeff,
        fit |-> IF fit_coeff.ok THEN polyval(fit_coeff.value, col_freq(df)) ELSE <<>>]

\* The computation shared by detrend and plot_baseline_fit.  `df` is the
\* frame after the call, `trimmed` the local df_trimmed.
baseline_fit(df, deg) ==
    LET d == drop(df, near(df, f21cm, 500))
        df_after == d.self
        df_trimmed == d.ret
        norm_trimmed == col_ratio(df_trimmed)
        norm == col_ratio(df_after)
        fit_coeff == polyfit(col_freq(df_trimmed), norm_trimmed, deg)
    IN [df |-> df_after, trimmed |-> df_trimmed, norm |-> norm,
        coeff |-> fit_coeff,
        fit |-> IF fit_coeff.ok THEN polyval(fit_coeff.value, col_freq(df_after))
                ELSE <<>>]

\* detrend(df): `ret` is norm - fit, a Series on df's index; `df` is the
\* caller's frame after the call
detrend(df) ==
    LET b == baseline_fit(df, 13)
    IN [df |-> b.df,
        ret |-> IF ~b.coeff.ok THEN b.coeff
                ELSE Ok([i \in 1..Len(b.norm) |->
                          [idx |-> b.df[i].idx, norm |-> b.norm[i], fit |-> b.fit[i]]])]

\* plot_baseline_fit(df, l, deg): `ret` is what the three artists show
plot_baseline_fit(df, l, deg) ==
    LET b == baseline_fit(df, deg)
    IN [df |-> b.df,
        ret |-> IF ~b.coeff.ok THEN b.coeff
                ELSE Ok([title |-> l,
                         all |-> [i \in 1..Len(b.norm) |-> <<b.df[i].freq, b.norm[i]>>],
                         remaining |-> [i \in 1..Len(b.trimmed) |->
                                          <<b.trimmed[i].freq, ratio(b.trimmed[i])>>],
                         line |-> [i \in 1..Len(b.fit) |-> <<b.df[i].freq, b.fit[i]>>]])]

\* c = 2.99792e8 m/s, split so that the products stay within 32 bits
c_km_s == 299792

\* the shift taken the other way round: c * (f - f21cm) / f
freq_to_rv1_reversed(f) ==
    LET a == c_km_s * (f - f21cm)
        q == a \div f
        r == a % f
    IN q * 1000 + (r * 1000) \div f

\* freq_to_rv on one frequency: c * (f21cm - f) / f in m/s, rounded down to a
\* whole number; q and r are quotient and remainder of the km/s value
freq_to_rv1(f) ==
    LET a == c_km_s * (f21cm - f)
        q == a \div f
        r == a % f
    IN q * 1000 + (r * 1000) \div f

\* freq_to_rv on an array: elementwise
freq_to_rv(frequency_array) ==
    [i \in 1..Len(frequency_array) |-> freq_to_rv1(frequency_array[i])]

(***************************************************************************)
(* The Data directory                                                      *)
(***************************************************************************)
NoMeas == [freqs |-> <<>>, data |-> <<>>]
Pkl(m) == [kind |-> "pkl", text |-> EmptyText, meas |-> m]      \* a capture
TextFile(t) == [kind |-> "text", text |-> t, meas |-> NoMeas]   \* a file holding text t
Folder == [kind |-> "dir", text |-> EmptyText, meas |-> NoMeas]

\* the capture stored under name k: two scans whose readings carry k
FileMeas(freqs, k) == MkMeas(freqs, 2, k, 1)

\* every capture of the survey has the frequency axis of the documented scenario
SurveyFreqs == ExampleFreqs

\* what an out-of-place entry named k may be: a folder, a text file, or a
\* capture with one frequency bin less
BadKinds == {"dir", "short"} \cup Texts

BadEntry(kind, k) ==
    IF kind = "dir" THEN Folder
    ELSE IF kind = "short" THEN Pkl(FileMeas(Tail(SurveyFreqs), k))
    ELSE TextFile(kind)

\* Entry names are 1..n in lexicographic order; data_info.txt and the folder
\* sort last.  Entry `bad` (0: none) is out of place, of kind `kind`.
Directory(n, bad, kind) ==
    [k \in 1..n |->
        IF k = bad THEN BadEntry(kind, k)
        ELSE IF k = n THEN Folder
        ELSE IF k = n - 1 THEN TextFile(HeaderText)
        ELSE Pkl(FileMeas(SurveyFreqs, k))]

Ascending(n) == [k \in 1..n |-> k]

(***************************************************************************)
(* Spec: the pipeline -- build the dataset collection, then detrend and    *)
(* plot its records                                                        *)
(***************************************************************************)
Init ==
    /\ pc = "start"
    /\ cur = 1
    /\ \E n \in 0..MaxFiles, kind \in BadKinds, descending \in BOOLEAN :
         \E bad \in 0..n :
            \* an entry the loader never opens (the two that sort last, the
            \* odd file before them) is out of place only as a capture
            /\ bad > 2 * ((n - 2) \div 2) => kind = "short"
            /\ contents = Directory(n, bad, kind)
            /\ listing = IF descending THEN Reverse(Ascending(n)) ELSE Ascending(n)
    /\ data = None
    /\ on = NoMeas /\ off = NoMeas /\ rec = None /\ recSwap = None
    /\ det = None /\ fig = None
    /\ freqsIn = <<>> /\ rv = <<>>

GetAllDatasets ==
    /\ pc = "start"
    /\ data' = get_all_datasets(contents, listing)
    /\ pc' = "loaded"
    /\ UNCHANGED <<cur, listing, contents, on, off, rec, recSwap, det, fig, freqsIn, rv>>

\* the driver works on the record of longitude longitudes[cur]
AtRecord == pc = "loaded" /\ data.ok /\ cur <= Len(longitudes)
            /\ longitudes[cur] \in DOMAIN data.value

\* corrected = detrend(all_datasets[l]); the previous call's result is dropped
Detrend ==
    /\ AtRecord
    /\ LET l == longitudes[cur]
           r == detrend(data.value[l])
       IN /\ data' = Ok([data.value EXCEPT ![l] = r.df])
          /\ det' = r.ret
    /\ fig' = None
    /\ UNCHANGED <<pc, cur, listing, contents, on, off, rec, recSwap, freqsIn, rv>>

Degrees == {3, 13}

\* plot_baseline_fit(all_datasets[l], l, deg)
PlotBaselineFit(deg) ==
    /\ AtRecord
    /\ LET l == longitudes[cur]
           r == plot_baseline_fit(data.value[l], l, deg)
       IN /\ data' = Ok([data.value EXCEPT ![l] = r.df])
          /\ fig' = r.ret
    /\ det' = None
    /\ UNCHANGED <<pc, cur, listing, contents, on, off, rec, recSwap, freqsIn, rv>>

\* the driver moves on to the next longitude; the last result is dropped
NextLongitude ==
    /\ AtRecord
    /\ cur' = cur + 1
    /\ det' = None /\ fig' = None
    /\ UNCHANGED <<pc, listing, contents, data, on, off, rec, recSwap, freqsIn, rv>>

Next ==
    \/ GetAllDatasets
    \/ Detrend
    \/ \E deg \in Degrees : PlotBaselineFit(deg)
    \/ NextLongitude

Spec == Init /\ [][Next]_vars

(***************************************************************************)
(* SpecCombine: create_dataframe on a pair of measurements, in both        *)
(* operand orders, then detrend of the record                              *)
(***************************************************************************)
OffFor(m) == UNION {MeasOn(a) : a \in OffAxes(m.freqs)} \cup {m}

InitCombine ==
    /\ pc = "args"
    /\ cur = 1
    /\ on \in Measurements
    /\ off \in OffFor(on)
    /\ rec = None /\ recSwap = None /\ det = None
    /\ listing = <<>> /\ contents = <<>> /\ data = None /\ fig = None
    /\ freqsIn = <<>> /\ rv = <<>>

CreateDataframe ==
    /\ pc = "args"
    /\ rec' = create_dataframe(on, off)
    /\ recSwap' = create_dataframe(off, on)
    /\ pc' = "combined"
    /\ UNCHANGED <<cur, listing, contents, data, on, off, det, fig, freqsIn, rv>>

DetrendRec ==
    /\ pc = "combined" /\ rec.ok
    /\ LET r == detrend(rec.value)
       IN /\ rec' = Ok(r.df)
          /\ det' = r.ret
    /\ pc' = "detrended"
    /\ UNCHANGED <<cur, listing, contents, data, on, off, recSwap, fig, freqsIn, rv>>

NextCombine == CreateDataframe \/ DetrendRec

SpecCombine == InitCombine /\ [][NextCombine]_vars

(***************************************************************************)
(* SpecRv: freq_to_rv on an array of frequencies                           *)
(***************************************************************************)
\* the grid, and the limits 1418 and 1423 MHz of the zoomed plot
RvFreqs == {Grid[i] : i \in 1..Len(Grid)} \cup {1418000, 1423000}

InitRv ==
    /\ pc = "rv_args"
    /\ cur = 1
    /\ freqsIn \in UNION {[1..n -> RvFreqs] : n \in 0..MaxLen}
    /\ rv = <<>>
    /\ listing = <<>> /\ contents = <<>> /\ data = None /\ fig = None
    /\ on = NoMeas /\ off = NoMeas /\ rec = None /\ recSwap = None /\ det = None

FreqToRv ==
    /\ pc = "rv_args"
    /\ rv' = freq_to_rv(freqsIn)
    /\ pc' = "rv_done"
    /\ UNCHANGED <<cur, listing, contents, data, on, off, rec, recSwap, det, fig, freqsIn>>

NextRv == FreqToRv

SpecRv == InitRv /\ [][NextRv]_vars

(***************************************************************************)
(* Properties                                                              *)
(***************************************************************************)

\* the artifact exclusion bands of the documentation: <<centre, half width>>
Bands == {<<1420000, 10>>, <<1419200, 50>>, <<1423500, 50>>}

\* the mean over the scans of bin j of measurement m
ColMean(m, j) == Rat(SumSeq([s \in 1..Len(m.data) |-> m.data[s][j]]), Len(m.data))

\* the rows of the table before artifact removal: bin i of a with the
\* on-mean of a and the off-mean of b
InputRows(a, b) ==
    [i \in 1..Len(a.freqs) |->
        [idx |-> i - 1, freq |-> a.freqs[i], data |-> ColMean(a, i), baseline |-> ColMean(b, i)]]

OutsideOrOnEdge(f) == \A b \in Bands : Abs(f - b[1]) >= b[2]
StrictlyOutside(f) == \A b \in Bands : Abs(f - b[1]) > b[2]
OnEdge(f) == \E b \in Bands : Abs(f - b[1]) = b[2]

Combined == pc \in {"combined", "detrended"}

\* C1: no row of a record returned by create_dataframe has a frequency inside
\* an artifact exclusion band: |row.freq - centre| >= halfWidth for every row
\* and every band, whichever operand order was used.
C1_NoRowInsideBand ==
    Combined =>
        \A r \in {rec, recSwap} :
            r.ok => \A i \in 1..Len(r.value) : \A b \in Bands :
                        Abs(r.value[i].freq - b[1]) >= b[2]

\* C1 witness: a record was returned from which artifact removal took some
\* rows and left others.
C1_Witness ==
    /\ pc = "combined" /\ rec.ok
    /\ Len(rec.value) > 0 /\ Len(rec.value) < Len(on.freqs)

\* C5 as stated: two different measurements never combine to the same record
\* in both operand orders (read for the calls that return a record with rows).
C5_Original ==
    (Combined /\ on # off /\ rec.ok /\ recSwap.ok /\ rec.value # <<>>)
    => rec.value # recSwap.value

\* C5 amended: when the two measurements share their frequency axis and
\* their scan-means differ in a bin that artifact removal keeps,
\* create_dataframe(a, b) and create_dataframe(b, a) both return and differ.
C5_SwapDiffers ==
    (/\ pc = "combined"
     /\ on.freqs = off.freqs
     /\ \E j \in 1..Len(on.freqs) :
            StrictlyOutside(on.freqs[j]) /\ ColMean(on, j) # ColMean(off, j))
    => (rec.ok /\ recSwap.ok /\ rec.value # recSwap.value)

\* C5 witness: such a pair has been combined, two bins long.
C5_Witness ==
    /\ pc = "combined" /\ on.freqs = off.freqs /\ Len(on.freqs) >= 2
    /\ \E j \in 1..Len(on.freqs) :
            StrictlyOutside(on.freqs[j]) /\ ColMean(on, j) # ColMean(off, j)

\* C6: when the frequency axes of the two measurements differ in length,
\* create_dataframe raises (ValueError, the frequency-mismatch error) in either
\* operand order and returns no record.
C6_LengthMismatchRaises ==
    (Combined /\ Len(on.freqs) # Len(off.freqs))
    => (rec = Err("ValueError") /\ recSwap = Err("ValueError"))

\* C6 witness: a pair with axes of different lengths has been combined.
C6_Witness ==
    /\ pc = "combined" /\ Len(on.freqs) # Len(off.freqs)
    /\ ~rec.ok /\ ~recSwap.ok

\* C7 as stated: the record is exactly the input rows outside every band,
\* where a row at distance exactly halfWidth from a band centre is kept.
C7_Original ==
    (pc = "combined" /\ rec.ok)
    => rec.value = SelectSeq(InputRows(on, off), LAMBDA r : OutsideOrOnEdge(r.freq))

\* C7 amended: the record is exactly the input rows whose frequency lies
\* farther than halfWidth from every band centre (a row exactly halfWidth
\* away is removed too), in their original order, each with its index label
\* and the on-mean and off-mean of its own bin; the documented scenario
\* keeps exactly 1419.0, 1420.405 and 1421.0 MHz.
C7_KeptRows ==
    /\ (pc = "combined" /\ rec.ok)
        => rec.value = SelectSeq(InputRows(on, off), LAMBDA r : StrictlyOutside(r.freq))
    /\ (pc = "combined" /\ recSwap.ok)
        => recSwap.value = SelectSeq(InputRows(off, on), LAMBDA r : StrictlyOutside(r.freq))
    /\ (pc = "combined" /\ on = ExampleMeas /\ off = ExampleMeas)
        => (rec.ok /\ col_freq(rec.value) = <<1419000, 1420405, 1421000>>)

\* C7 witness: a record whose input had a row exactly on a band edge and a
\* row that was kept.
C7_Witness ==
    /\ pc = "combined" /\ rec.ok /\ Len(rec.value) > 0
    /\ \E i \in 1..Len(on.freqs) : OnEdge(on.freqs[i])

\* C8: freq_to_rv returns one velocity per frequency; it is 0 at the rest
\* frequency 1420.405 MHz and nowhere else, positive below the rest
\* frequency and negative above it.
C8_ZeroOnlyAtRest ==
    pc = "rv_done" =>
        /\ Len(rv) = Len(freqsIn)
        /\ \A i \in 1..Len(freqsIn) :
              /\ (rv[i] = 0) = (freqsIn[i] = 1420405)
              /\ (rv[i] > 0) = (freqsIn[i] < 1420405)
              /\ (rv[i] < 0) = (freqsIn[i] > 1420405)

\* C8 witness: freq_to_rv was applied to an array holding the rest frequency
\* and another frequency.
C8_Witness ==
    /\ pc = "rv_done" /\ Len(rv) >= 2
    /\ \E i, j \in 1..Len(freqsIn) : freqsIn[i] = 1420405 /\ freqsIn[j] # 1420405

FitRows(df) == SelectSeq(df, LAMBDA r : Abs(r.freq - 1420405) >= 500)
RowRatio(r) == Rat(r.data.num * r.baseline.den, r.data.den * r.baseline.num)

\* C9 as stated: detrend returns one value per input row for every record
\* (read for the records that have rows).
C9_Original ==
    (pc = "detrended" /\ create_dataframe(on, off).value # <<>>)
    => (det.ok /\ Len(det.value) = Len(create_dataframe(on, off).value))

\* C9 amended: for every record with at least one row at 0.5 MHz or more
\* from 1420.405 MHz, detrend returns one value per input row, in input row
\* order: row i's ratio minus the degree-13 polynomial fitted on exactly the
\* rows at 0.5 MHz or more from the line and evaluated at row i's frequency,
\* the rows left out of the fit included. A record with no such row makes
\* polyfit raise (TypeError) and detrend returns nothing.
C9_OneValuePerRow ==
    pc = "detrended" =>
        LET df == create_dataframe(on, off).value
            fitted == FitRows(df)
        IN IF fitted = <<>> THEN det = Err("TypeError")
           ELSE /\ det.ok
                /\ Len(det.value) = Len(df)
                /\ \A i \in 1..Len(df) :
                      /\ det.value[i].idx = df[i].idx
                      /\ det.value[i].norm = RowRatio(df[i])
                      /\ det.value[i].fit.at = df[i].freq
                      /\ det.value[i].fit.p.deg = 13
                      /\ det.value[i].fit.p.x = [k \in 1..Len(fitted) |-> fitted[k].freq]
                      /\ det.value[i].fit.p.y = [k \in 1..Len(fitted) |-> RowRatio(fitted[k])]

\* C9 witness: detrend returned for a record with a row left out of the fit.
C9_Witness ==
    /\ pc = "detrended" /\ det.ok
    /\ Len(det.value[1].fit.p.x) < Len(det.value)

\* number of file pairs the loader iterates over
NumPairs == (IF Len(listing) <= 2 THEN 0 ELSE Len(listing) - 2) \div 2
Qualifying == IF Len(listing) <= 2 THEN 0 ELSE Len(listing) - 2

\* the longitude of the i-th pair (1-based) in the documented sequence
\* 10,15,...,100,110,130,140,...,190,120
DocumentedLongitude(i) ==
    IF i <= 19 THEN 5 + 5 * i
    ELSE IF i = 20 THEN 110
    ELSE IF i <= 27 THEN 130 + 10 * (i - 21)
    ELSE 120

\* entry k of the directory is a capture with the survey's frequency axis
ValidCapture(k) == contents[k].kind = "pkl" /\ contents[k].meas.freqs = SurveyFreqs

\* C2 as stated: with an odd number of qualifying files the loader raises
\* MalformedDatasetError and returns no mapping (read for the directories that
\* hold valid captures only, at least one whole pair besides the odd file).
C2_OddCountRaises ==
    (/\ pc = "loaded" /\ Qualifying % 2 = 1 /\ Qualifying >= 3
     /\ \A k \in 1..Qualifying : ValidCapture(k))
    => (~data.ok /\ data.error = "MalformedDatasetError")

\* C3: the loader sorts the listing, discards the last two entries and
\* stores, for every pair i, under the i-th documented longitude the record
\* create_dataframe(on = second file of the pair, off = first file); one key
\* per pair, and the 28th pair under 120, not 200.  It returns the mapping
\* whenever the paired files are valid captures and there are at most 28 pairs.
C3_PairsToLongitudes ==
    pc = "loaded" =>
        /\ data.ok =>
              /\ NumPairs <= 28
              /\ DOMAIN data.value = {DocumentedLongitude(i) : i \in 1..NumPairs}
              /\ Cardinality(DOMAIN data.value) = NumPairs
              /\ \A i \in 1..NumPairs :
                    data.value[DocumentedLongitude(i)]
                        = SelectSeq(InputRows(contents[2 * i].meas, contents[2 * i - 1].meas),
                                    LAMBDA r : StrictlyOutside(r.freq))
              /\ NumPairs = 28 => (120 \in DOMAIN data.value /\ 200 \notin DOMAIN data.value)
        /\ (NumPairs <= 28 /\ \A k \in 1..(2 * NumPairs) : ValidCapture(k)) => data.ok

\* C3 witness: a directory of 28 pairs was loaded; the last pair is under 120.
C3_Witness ==
    /\ pc = "loaded" /\ data.ok /\ NumPairs = 28
    /\ 120 \in DOMAIN data.value
    /\ listing[1] # 1

\* C4: with more than 28 file pairs the loader returns no mapping; it raises
\* the index error of the longitude list (the unknown-longitude error) when
\* the files of the first 29 pairs are valid captures.
C4_TooManyPairsRaises ==
    (pc = "loaded" /\ NumPairs > 28) =>
        /\ ~data.ok
        /\ (\A k \in 1..58 : ValidCapture(k)) => data = Err("IndexError")

\* C4 witness: a directory of 29 valid pairs was loaded and the loader raised.
C4_Witness ==
    /\ pc = "loaded" /\ NumPairs > 28 /\ data = Err("IndexError")

\* C10: once the collection is built, no detrend or plot_baseline_fit call
\* (nor the driver moving on) changes any record of it.
C10_CollectionReadOnly == [][pc = "loaded" => data' = data]_vars

\* C10 witness: detrend has run on a record of the collection and left rows
\* near the 21-cm line out of its fit.
C10_Witness ==
    /\ pc = "loaded" /\ data.ok /\ det.ok
    /\ Len(det.value[1].fit.p.x) < Len(det.value)
    /\ cur > 1

====
